---- MODULE Spec2Model ----
(***************************************************************************)
(* Model of cookie_manager.py: the cookie store file, the one-shot         *)
(* refresh (browser acquire, login, navigation, extraction, store write,   *)
(* release) and the background renewal scheduler (start / stop / worker).  *)
(*                                                                         *)
(* Thread 0 is the caller's thread; threads 1..MaxThreads are the renewal  *)
(* workers created by start_cookie_refresh_loop.                           *)
(***************************************************************************)
EXTENDS Integers, Sequences, FiniteSets, TLC

\* ------------------------------------------------------------------ bounds
MaxThreads == 2        \* worker threads that may ever be created
TicksPerInterval == 2  \* REFRESH_INTERVAL // 60, scaled down
MaxFileLen == 3        \* longest initial store content (tokens) in SpecStore

\* --------------------------------------------------------------- strings
\* A string is a sequence of atoms; "in" is Python's substring test.
Contains(s, sub) ==
  \E i \in 1..(Len(s) - Len(sub) + 1) : SubSeq(s, i, i + Len(sub) - 1) = sub

\* line 239: ['.youtube.com', '.google.com', 'youtube.com', 'google.com']
TargetDomains ==
  { <<".", "youtube", ".", "com">>, <<".", "google", ".", "com">>,
    <<"youtube", ".", "com">>, <<"google", ".", "com">> }

\* The cookies a browser session can hold, and the domain of each.
CookieIds == <<"c1", "c2", "c3">>

CookieDomain(c) ==
  CASE c = "c1" -> <<".", "youtube", ".", "com">>
    [] c = "c2" -> <<"ads", ".", "example", ".", "net">>
    [] OTHER    -> <<"google", ".", "com", ".", "evil", ".", "net">>

\* what page.context.cookies() can return: every sub-list of CookieIds
RECURSIVE SubLists(_)
SubLists(s) ==
  IF s = <<>> THEN { <<>> }
  ELSE LET rest == SubLists(Tail(s))
       IN rest \cup { <<Head(s)>> \o r : r \in rest }

BrowserJars == SubLists(CookieIds)

\* lines 236-250: keep the cookies whose domain contains a target substring
RECURSIVE FilterCookies(_)
FilterCookies(cookies) ==
  IF cookies = <<>> THEN <<>>
  ELSE LET c == Head(cookies)
           keep == \E d \in TargetDomains : Contains(CookieDomain(c), d)
       IN (IF keep THEN <<c>> ELSE <<>>) \o FilterCookies(Tail(cookies))

\* ------------------------------------------------------------ store file
\* The store file is a sequence of JSON tokens.  A cookie token "c<i>"
\* stands for one cookie object; "kv" for one member of an object; "str"
\* for a non-empty string literal; "nul" for a zero byte left by a write
\* past the end of the file.
CookieTokens == { CookieIds[i] : i \in 1..Len(CookieIds) }
Tokens == {"[", "]", ",", "{", "}", "kv", "str", "num", "c1"}

NoFile == [exists |-> FALSE, data |-> <<>>]
FileOf(toks) == [exists |-> TRUE, data |-> toks]

\* json.dump(youtube_cookies, f): the token stream of a list
RECURSIVE DumpElems(_)
DumpElems(cs) ==
  IF cs = <<>> THEN <<>>
  ELSE IF Len(cs) = 1 THEN <<cs[1]>>
  ELSE <<cs[1], ",">> \o DumpElems(Tail(cs))

json_dump(cs) == <<"[">> \o DumpElems(cs) \o <<"]">>

\* json.load: recursive descent over the tokens.  The result carries the
\* Python type of the value ("list", "dict", "str", "num") and its len.
ParseFail == [ok |-> FALSE, next |-> 0, kind |-> "none", len |-> 0]
Parsed(n, k, l) == [ok |-> TRUE, next |-> n, kind |-> k, len |-> l]

RECURSIVE ParseMembers(_, _, _)
ParseMembers(t, i, n) ==
  IF i + 1 > Len(t) \/ t[i] # "kv" THEN ParseFail
  ELSE IF t[i + 1] = "}" THEN Parsed(i + 2, "dict", n + 1)
  ELSE IF t[i + 1] = "," THEN ParseMembers(t, i + 2, n + 1)
  ELSE ParseFail

RECURSIVE ParseValue(_, _), ParseElems(_, _, _)
ParseValue(t, i) ==
  IF i > Len(t) THEN ParseFail
  ELSE IF t[i] \in CookieTokens THEN Parsed(i + 1, "dict", 8)
  ELSE IF t[i] = "str" THEN Parsed(i + 1, "str", 1)
  ELSE IF t[i] = "num" THEN Parsed(i + 1, "num", 0)
  ELSE IF t[i] = "[" THEN
         IF i + 1 <= Len(t) /\ t[i + 1] = "]" THEN Parsed(i + 2, "list", 0)
         ELSE ParseElems(t, i + 1, 0)
  ELSE IF t[i] = "{" THEN
         IF i + 1 <= Len(t) /\ t[i + 1] = "}" THEN Parsed(i + 2, "dict", 0)
         ELSE ParseMembers(t, i + 1, 0)
  ELSE ParseFail

ParseElems(t, i, n) ==
  LET v == ParseValue(t, i)
  IN IF ~v.ok \/ v.next > Len(t) THEN ParseFail
     ELSE IF t[v.next] = "]" THEN Parsed(v.next + 1, "list", n + 1)
     ELSE IF t[v.next] = "," THEN ParseElems(t, v.next + 1, n + 1)
     ELSE ParseFail

json_load(t) ==
  LET v == ParseValue(t, 1)
  IN IF v.ok /\ v.next = Len(t) + 1 THEN v ELSE ParseFail

\* lines 389-405: ioerr is an OSError raised by open() or read()
check_cookies_file(f, ioerr) ==
  IF ~f.exists THEN FALSE
  ELSE IF ioerr THEN FALSE
  ELSE LET v == json_load(f.data)
       IN IF ~v.ok THEN FALSE                 \* JSONDecodeError
          ELSE IF v.kind = "num" THEN FALSE   \* len() raises TypeError
          ELSE v.len > 0

\* ------------------------------------------------------------------ state
VARIABLES
  file,            \* the store file COOKIES_FILE
  _stop_refresh,   \* line 46
  _refresh_thread, \* line 45: 0 is None, else the id of a worker thread
  nthreads,        \* threading.Thread objects created so far
  w,               \* w[i]: the position of worker i in _refresh_loop
  rf,              \* rf[t]: the refresh_cookies() call thread t is running
  mpc,             \* the caller's thread: "idle", "refresh", "ensure", "join"
  lastOp,          \* the caller's last one-shot operation
  prevOp,          \* and the one before it
  lastRet,         \* what the caller's last operation returned
  lastIoErr,       \* whether the caller's last store read hit an OSError
  sched,           \* the last completed scheduler call
  prevSched,       \* and the one before it
  before,          \* the store file as the caller's refresh found it
  lg               \* the last direct call of login_to_gmail: inputs, outcome

vars == << file, _stop_refresh, _refresh_thread, nthreads, w, rf, mpc,
           lastOp, prevOp, lastRet, lastIoErr, sched, prevSched, before, lg >>

\* no direct call of login_to_gmail yet
NoLogin ==
  [called |-> FALSE, stepExc |-> FALSE, waitOk |-> FALSE,
   contentExc |-> FALSE, page |-> [url |-> {}, content |-> {}, link |-> FALSE],
   out |-> "none"]

Threads == 0..MaxThreads
Workers == 1..MaxThreads

IdleRec ==
  [pc |-> "idle", res |-> "none", browser |-> "none", page |-> "none",
   launched |-> FALSE, credsMissing |-> FALSE, chal |-> FALSE,
   login |-> "none", cookies |-> <<>>, pos |-> 0, closes |-> <<>>]

NewWorker == [wpc |-> "unborn", tick |-> 0, lastRes |-> "none"]

\* Thread.is_alive()
Alive(i) == w[i].wpc \notin {"unborn", "done", "crashed"}

LiveWorkers == { i \in Workers : Alive(i) }

\* ----------------------------------------------------------- one refresh
\* os.getenv gives None ("unset"), "" ("empty") or a value; line 279 "not x"
EnvValues == {"unset", "empty", "value"}
Missing(v) == v \in {"unset", "empty"}

\* The page after the secret is submitted: the marks its URL and its
\* content carry, and whether the DOM holds a link to the platform.
UrlMarks == {"verify", "challenge", "youtube.com", "myaccount.google.com"}
Pages ==
  [url : SUBSET UrlMarks, content : SUBSET {"challenge"}, link : BOOLEAN]

\* lines 149-153: the predicate wait_for_function polls
SuccessSignal(p) ==
  \/ "myaccount.google.com" \in p.url
  \/ "youtube.com" \in p.url
  \/ p.link

ChallengeUrl(p) == p.url \cap {"verify", "challenge"} # {}

\* line 163: the test for a verification / challenge page
ChallengeIndicated(p) == "verify" \in p.url \/ "challenge" \in p.content

\* line 166: the URL is on the platform or the account-management domain
OnAccountDomain(p) ==
  "youtube.com" \in p.url \/ "myaccount.google.com" \in p.url

\* the branches of lines 163-171 taken in the order success, challenge
login_try_success_first(stepExc, waitOk, contentExc, p) ==
  IF stepExc THEN "raise"
  ELSE IF waitOk THEN "true"
  ELSE IF contentExc THEN "raise"
  ELSE IF OnAccountDomain(p) THEN "true"
  ELSE "false"

\* lines 126-171, the body of the outer try.  stepExc: a step up to the
\* second click raised; waitOk: wait_for_function returned; contentExc:
\* reading the URL or page.content() in the inner handler raised.
login_try(stepExc, waitOk, contentExc, p) ==
  IF stepExc THEN "raise"
  ELSE IF waitOk THEN "true"
  ELSE IF contentExc THEN "raise"
  ELSE IF ChallengeIndicated(p) THEN "false"
  ELSE IF OnAccountDomain(p) THEN "true"
  ELSE "false"

\* an outer handler that lets the exception through
login_noexcept(r) == r

\* lines 173-175: except Exception -> return False
login_except(r) == IF r = "raise" THEN "false" ELSE r

\* lines 125-175: what login_to_gmail gives back ("raise": it raised)
login_to_gmail(stepExc, waitOk, contentExc, p) ==
  login_except(login_try(stepExc, waitOk, contentExc, p))

\* lines 184-216.  gotoExc: goto raised; avatar: the account element showed
\* up; queryExc: query_selector raised; signIn: a sign-in button is there.
navigate_to_youtube(gotoExc, avatar, queryExc, signIn) ==
  IF gotoExc THEN FALSE
  ELSE IF avatar THEN TRUE
  ELSE IF queryExc THEN FALSE
  ELSE ~signIn

\* lines 315-317: except Exception -> return False
refresh_cookies_async_except(r) == IF r = "raise" THEN "false" ELSE r

\* lines 337-339: except Exception -> return False
refresh_cookies_noexcept(r) == r

refresh_cookies_except(r) == IF r = "raise" THEN "false" ELSE r

\* what refresh_cookies() returns for the outcome r of its body
Returned(r) == refresh_cookies_except(refresh_cookies_async_except(r))

\* a write of one token at offset pos of the file (the handle's own offset)
WriteAt(f, pos, tok) ==
  IF pos < Len(f.data) THEN [f EXCEPT !.data[pos + 1] = tok]
  ELSE [f EXCEPT !.data =
          f.data \o [k \in 1..(pos - Len(f.data)) |-> "nul"] \o <<tok>>]

\* the entry into refresh_cookies() by thread t
BeginRefresh(t) ==
  rf' = [rf EXCEPT ![t] = [IdleRec EXCEPT !.pc = "loop"]]

\* perform_login_and_save_cookies returned r (its locals are gone): on to
\* __aexit__
Leave(t, r) ==
  [rf[t] EXCEPT !.pc = "release", !.res = r, !.cookies = <<>>, !.pos = 0]

\* lines 327-335: get or create the event loop, run_until_complete
RefreshLoop(t) ==
  /\ rf[t].pc = "loop"
  /\ \E loopErr \in BOOLEAN :
       rf' = [rf EXCEPT ![t] =
                IF loopErr
                THEN [@ EXCEPT !.pc = "ret", !.res = refresh_cookies_except("raise")]
                ELSE [@ EXCEPT !.pc = "acquire"]]
  /\ UNCHANGED << file, _stop_refresh, _refresh_thread, nthreads, w, mpc,
                  lastOp, prevOp, lastRet, lastIoErr, sched, prevSched, before, lg >>

\* lines 56-59, 65-102: __aenter__ -> start_browser; a failure is re-raised
\* and __aexit__ is not run
RefreshAcquire(t) ==
  /\ rf[t].pc = "acquire"
  /\ \E o \in {"ok", "launch_fail", "page_fail"} :
       rf' = [rf EXCEPT ![t] =
                CASE o = "ok" ->
                       [@ EXCEPT !.pc = "creds", !.browser = "open",
                                 !.page = "open", !.launched = TRUE]
                  [] o = "launch_fail" ->
                       [@ EXCEPT !.pc = "ret", !.res = Returned("raise")]
                  [] OTHER ->
                       [@ EXCEPT !.pc = "ret", !.res = Returned("raise"),
                                 !.browser = "open", !.launched = TRUE]]
  /\ UNCHANGED << file, _stop_refresh, _refresh_thread, nthreads, w, mpc,
                  lastOp, prevOp, lastRet, lastIoErr, sched, prevSched, before, lg >>

\* lines 274-281
RefreshCreds(t) ==
  /\ rf[t].pc = "creds"
  /\ \E email \in EnvValues, password \in EnvValues :
       rf' = [rf EXCEPT ![t] =
                IF Missing(email) \/ Missing(password)
                THEN [Leave(t, "false") EXCEPT !.credsMissing = TRUE]
                ELSE [@ EXCEPT !.pc = "login"]]
  /\ UNCHANGED << file, _stop_refresh, _refresh_thread, nthreads, w, mpc,
                  lastOp, prevOp, lastRet, lastIoErr, sched, prevSched, before, lg >>

\* lines 283-285
RefreshLogin(t) ==
  /\ rf[t].pc = "login"
  /\ \E stepExc \in BOOLEAN, waitOk \in BOOLEAN, contentExc \in BOOLEAN,
        p \in Pages :
       /\ waitOk => SuccessSignal(p)
       /\ LET r == login_to_gmail(stepExc, waitOk, contentExc, p)
              seen == [rf[t] EXCEPT !.chal = ~stepExc /\ ChallengeUrl(p),
                                    !.login = r]
          IN rf' = [rf EXCEPT ![t] =
                      IF r = "true" THEN [seen EXCEPT !.pc = "nav"]
                      ELSE [seen EXCEPT !.pc = "release", !.res = "false"]]
  /\ UNCHANGED << file, _stop_refresh, _refresh_thread, nthreads, w, mpc,
                  lastOp, prevOp, lastRet, lastIoErr, sched, prevSched, before, lg >>

\* lines 114-175: login_to_gmail called on a session whose page is ready;
\* the call's inputs and its outcome are kept
CallLogin ==
  /\ \E stepExc \in BOOLEAN, waitOk \in BOOLEAN, contentExc \in BOOLEAN,
        p \in Pages :
       /\ waitOk => SuccessSignal(p)
       /\ lg' = [called |-> TRUE, stepExc |-> stepExc, waitOk |-> waitOk,
                 contentExc |-> contentExc, page |-> p,
                 out |-> login_to_gmail(stepExc, waitOk, contentExc, p)]
  /\ UNCHANGED << file, _stop_refresh, _refresh_thread, nthreads, w, rf, mpc,
                  lastOp, prevOp, lastRet, lastIoErr, sched, prevSched,
                  before >>

\* lines 287-289
RefreshNavigate(t) ==
  /\ rf[t].pc = "nav"
  /\ \E gotoExc \in BOOLEAN, avatar \in BOOLEAN, queryExc \in BOOLEAN,
        signIn \in BOOLEAN :
       rf' = [rf EXCEPT ![t] =
                IF navigate_to_youtube(gotoExc, avatar, queryExc, signIn)
                THEN [@ EXCEPT !.pc = "extract"]
                ELSE Leave(t, "false")]
  /\ UNCHANGED << file, _stop_refresh, _refresh_thread, nthreads, w, mpc,
                  lastOp, prevOp, lastRet, lastIoErr, sched, prevSched, before, lg >>

\* lines 225-254: read the cookies, filter them
RefreshExtract(t) ==
  /\ rf[t].pc = "extract"
  /\ \E cookiesExc \in BOOLEAN, jar \in BrowserJars :
       LET youtube_cookies == FilterCookies(jar)
       IN rf' = [rf EXCEPT ![t] =
                   IF cookiesExc \/ jar = <<>> \/ youtube_cookies = <<>>
                   THEN Leave(t, "false")
                   ELSE [@ EXCEPT !.pc = "open", !.cookies = youtube_cookies]]
  /\ UNCHANGED << file, _stop_refresh, _refresh_thread, nthreads, w, mpc,
                  lastOp, prevOp, lastRet, lastIoErr, sched, prevSched, before, lg >>

\* line 257: open(COOKIES_FILE, 'w') creates or truncates the file, or raises
RefreshOpen(t) ==
  /\ rf[t].pc = "open"
  /\ \E openErr \in BOOLEAN :
       IF openErr
       THEN /\ rf' = [rf EXCEPT ![t] = Leave(t, "false")]
            /\ file' = file
       ELSE /\ rf' = [rf EXCEPT ![t] = [@ EXCEPT !.pc = "dump", !.pos = 0]]
            /\ file' = FileOf(<<>>)
  /\ UNCHANGED << _stop_refresh, _refresh_thread, nthreads, w, mpc,
                  lastOp, prevOp, lastRet, lastIoErr, sched, prevSched, before, lg >>

\* line 258: json.dump reaches the file one piece at a time
RefreshWrite(t) ==
  /\ rf[t].pc = "dump"
  /\ rf[t].pos < Len(json_dump(rf[t].cookies))
  /\ file' = WriteAt(file, rf[t].pos, json_dump(rf[t].cookies)[rf[t].pos + 1])
  /\ rf' = [rf EXCEPT ![t].pos = @ + 1]
  /\ UNCHANGED << _stop_refresh, _refresh_thread, nthreads, w, mpc,
                  lastOp, prevOp, lastRet, lastIoErr, sched, prevSched, before, lg >>

\* line 258: a write raises (disk full, I/O error); lines 263-265
RefreshWriteError(t) ==
  /\ rf[t].pc = "dump"
  /\ rf[t].pos < Len(json_dump(rf[t].cookies))
  /\ rf' = [rf EXCEPT ![t] = Leave(t, "false")]
  /\ UNCHANGED << file, _stop_refresh, _refresh_thread, nthreads, w, mpc,
                  lastOp, prevOp, lastRet, lastIoErr, sched, prevSched, before, lg >>

\* lines 257-261: the with block ends, the file is closed
RefreshClose(t) ==
  /\ rf[t].pc = "dump"
  /\ rf[t].pos = Len(json_dump(rf[t].cookies))
  /\ rf' = [rf EXCEPT ![t] = Leave(t, "true")]
  /\ UNCHANGED << file, _stop_refresh, _refresh_thread, nthreads, w, mpc,
                  lastOp, prevOp, lastRet, lastIoErr, sched, prevSched, before, lg >>

\* lines 61-63, 104-112: __aexit__ -> close_browser; then lines 309-313
RefreshRelease(t) ==
  /\ rf[t].pc = "release"
  /\ \E pageExc \in BOOLEAN, browserExc \in BOOLEAN :
       rf' = [rf EXCEPT ![t] =
                [@ EXCEPT !.pc = "ret",
                          !.res = Returned(rf[t].res),
                          !.closes = IF pageExc THEN <<"page">>
                                     ELSE <<"page", "browser">>,
                          !.page = IF pageExc THEN "open" ELSE "closed",
                          !.browser = IF pageExc \/ browserExc
                                      THEN "open" ELSE "closed"]]
  /\ UNCHANGED << file, _stop_refresh, _refresh_thread, nthreads, w, mpc,
                  lastOp, prevOp, lastRet, lastIoErr, sched, prevSched, before, lg >>

RefreshStep(t) ==
  \/ RefreshLoop(t)
  \/ RefreshAcquire(t)
  \/ RefreshCreds(t)
  \/ RefreshLogin(t)
  \/ RefreshNavigate(t)
  \/ RefreshExtract(t)
  \/ RefreshOpen(t)
  \/ RefreshWrite(t)
  \/ RefreshWriteError(t)
  \/ RefreshClose(t)
  \/ RefreshRelease(t)

\* ------------------------------------------------- the caller's one-shots
\* line 320: the caller invokes refresh_cookies()
CallRefresh ==
  /\ mpc = "idle"
  /\ mpc' = "refresh"
  /\ BeginRefresh(0)
  /\ lastOp' = "refresh"
  /\ prevOp' = lastOp
  /\ before' = file
  /\ lastRet' = "none"
  /\ UNCHANGED << lg, file, _stop_refresh, _refresh_thread, nthreads, w,
                  lastIoErr, sched, prevSched >>

\* lines 423-435, with a refresh for every verdict of the check
CallEnsureAlways ==
  /\ mpc = "idle"
  /\ \E ioerr \in BOOLEAN :
       /\ lastIoErr' = ioerr
       /\ mpc' = "ensure"
       /\ BeginRefresh(0)
       /\ lastRet' = "none"
  /\ lastOp' = "ensure"
  /\ prevOp' = lastOp
  /\ before' = file
  /\ UNCHANGED << lg, file, _stop_refresh, _refresh_thread, nthreads, w,
                  sched, prevSched >>

\* lines 423-435: ensure_cookies()
CallEnsure ==
  /\ mpc = "idle"
  /\ \E ioerr \in BOOLEAN :
       /\ lastIoErr' = ioerr
       /\ IF check_cookies_file(file, ioerr)
          THEN /\ lastRet' = "true"
               /\ UNCHANGED << mpc, rf >>
          ELSE /\ mpc' = "ensure"
               /\ BeginRefresh(0)
               /\ lastRet' = "none"
  /\ lastOp' = "ensure"
  /\ prevOp' = lastOp
  /\ before' = file
  /\ UNCHANGED << lg, file, _stop_refresh, _refresh_thread, nthreads, w,
                  sched, prevSched >>

\* lines 389-405: the caller invokes check_cookies_file()
CallIsValid ==
  /\ mpc = "idle"
  /\ \E ioerr \in BOOLEAN :
       /\ lastIoErr' = ioerr
       /\ lastRet' = IF check_cookies_file(file, ioerr) THEN "true" ELSE "false"
  /\ lastOp' = "isValid"
  /\ prevOp' = lastOp
  /\ UNCHANGED << file, _stop_refresh, _refresh_thread, nthreads, w, rf, mpc,
                  sched, prevSched, before, lg >>

\* line 335 / line 435: refresh_cookies() returns to the caller
MainReturn ==
  /\ mpc \in {"refresh", "ensure"}
  /\ rf[0].pc = "ret"
  /\ lastRet' = rf[0].res
  /\ rf' = [rf EXCEPT ![0] = IdleRec]
  /\ mpc' = "idle"
  /\ UNCHANGED << file, _stop_refresh, _refresh_thread, nthreads, w,
                  lastOp, prevOp, lastIoErr, sched, prevSched, before, lg >>

\* ------------------------------------------------------------ the scheduler
\* lines 365-376 without the is_alive() test of line 369
StartUnchecked ==
  /\ mpc = "idle"
  /\ nthreads < MaxThreads
  /\ _stop_refresh' = FALSE
  /\ nthreads' = nthreads + 1
  /\ _refresh_thread' = nthreads + 1
  /\ w' = [w EXCEPT ![nthreads + 1].wpc = "started"]
  /\ sched' = "spawned"
  /\ prevSched' = sched
  /\ UNCHANGED << lg, file, rf, mpc, lastOp, prevOp, lastRet, lastIoErr, before >>

\* lines 365-376 without the reset of line 373
StartKeepFlag ==
  /\ mpc = "idle"
  /\ IF _refresh_thread # 0 /\ Alive(_refresh_thread)
     THEN /\ sched' = "noop"
          /\ UNCHANGED << _refresh_thread, nthreads, w >>
     ELSE /\ nthreads < MaxThreads
          /\ nthreads' = nthreads + 1
          /\ _refresh_thread' = nthreads + 1
          /\ w' = [w EXCEPT ![nthreads + 1].wpc = "started"]
          /\ sched' = "spawned"
  /\ prevSched' = sched
  /\ UNCHANGED << lg, file, _stop_refresh, rf, mpc, lastOp, prevOp, lastRet,
                  lastIoErr, before >>

\* lines 365-376 with the reset of line 373 ahead of the test of line 369
StartClearFirst ==
  /\ mpc = "idle"
  /\ _stop_refresh' = FALSE
  /\ IF _refresh_thread # 0 /\ Alive(_refresh_thread)
     THEN /\ sched' = "noop"
          /\ UNCHANGED << _refresh_thread, nthreads, w >>
     ELSE /\ nthreads < MaxThreads
          /\ nthreads' = nthreads + 1
          /\ _refresh_thread' = nthreads + 1
          /\ w' = [w EXCEPT ![nthreads + 1].wpc = "started"]
          /\ sched' = "spawned"
  /\ prevSched' = sched
  /\ UNCHANGED << lg, file, rf, mpc, lastOp, prevOp, lastRet, lastIoErr,
                  before >>

\* lines 365-376: start_cookie_refresh_loop()
Start ==
  /\ mpc = "idle"
  /\ IF _refresh_thread # 0 /\ Alive(_refresh_thread)
     THEN /\ sched' = "noop"
          /\ UNCHANGED << _stop_refresh, _refresh_thread, nthreads, w >>
     ELSE /\ nthreads < MaxThreads
          /\ _stop_refresh' = FALSE
          /\ nthreads' = nthreads + 1
          /\ _refresh_thread' = nthreads + 1
          /\ w' = [w EXCEPT ![nthreads + 1].wpc = "started"]
          /\ sched' = "spawned"
  /\ prevSched' = sched
  /\ UNCHANGED << lg, file, rf, mpc, lastOp, prevOp, lastRet, lastIoErr, before >>

\* lines 383-384: stop_cookie_refresh_loop() sets the flag and, with a
\* thread object at hand, goes on to join it
StopSet ==
  /\ mpc = "idle"
  /\ _stop_refresh' = TRUE
  /\ lastRet' = "none"
  /\ IF _refresh_thread # 0
     THEN /\ mpc' = "join"
          /\ UNCHANGED << sched, prevSched >>
     ELSE /\ mpc' = "idle"
          /\ sched' = "stopped"
          /\ prevSched' = sched
  /\ UNCHANGED << lg, file, _refresh_thread, nthreads, w, rf, lastOp, prevOp,
                  lastIoErr, before >>

\* lines 385-386 with a join that ends the thread it waited for
StopJoinKill ==
  /\ mpc = "join"
  /\ mpc' = "idle"
  /\ lastRet' = IF _refresh_thread = 0 THEN "raise" ELSE "none"
  /\ sched' = "stopped"
  /\ prevSched' = sched
  /\ IF _refresh_thread # 0 /\ Alive(_refresh_thread)
     THEN /\ w' = [w EXCEPT ![_refresh_thread].wpc = "done"]
          /\ rf' = [rf EXCEPT ![_refresh_thread] = IdleRec]
     ELSE UNCHANGED << w, rf >>
  /\ UNCHANGED << lg, file, _stop_refresh, _refresh_thread, nthreads,
                  lastOp, prevOp, lastIoErr, before >>

\* lines 385-386: join(timeout=5) returns, the thread dead or the time up;
\* on None it would raise AttributeError
StopJoin ==
  /\ mpc = "join"
  /\ mpc' = "idle"
  /\ lastRet' = IF _refresh_thread = 0 THEN "raise" ELSE "none"
  /\ sched' = "stopped"
  /\ prevSched' = sched
  /\ UNCHANGED << lg, file, _stop_refresh, _refresh_thread, nthreads, w, rf,
                  lastOp, prevOp, lastIoErr, before >>

\* -------------------------------------------------------------- the worker
\* lines 346-349: the initial refresh
WorkerInitialRefresh(i) ==
  /\ w[i].wpc = "started"
  /\ w' = [w EXCEPT ![i].wpc = "refreshing"]
  /\ BeginRefresh(i)
  /\ UNCHANGED << file, _stop_refresh, _refresh_thread, nthreads, mpc,
                  lastOp, prevOp, lastRet, lastIoErr, sched, prevSched, before, lg >>

\* lines 349 / 360: refresh_cookies() returns into the loop; an exception
\* leaving it would end the thread
WorkerRefreshReturn(i) ==
  /\ w[i].wpc = "refreshing"
  /\ rf[i].pc = "ret"
  /\ w' = [w EXCEPT ![i] =
             IF rf[i].res = "raise"
             THEN [@ EXCEPT !.wpc = "crashed"]
             ELSE [@ EXCEPT !.wpc = "while", !.lastRes = rf[i].res]]
  /\ rf' = [rf EXCEPT ![i] = IdleRec]
  /\ UNCHANGED << file, _stop_refresh, _refresh_thread, nthreads, mpc,
                  lastOp, prevOp, lastRet, lastIoErr, sched, prevSched, before, lg >>

\* line 351: while not _stop_refresh
WorkerWhile(i) ==
  /\ w[i].wpc = "while"
  /\ w' = [w EXCEPT ![i] =
             IF _stop_refresh
             THEN [@ EXCEPT !.wpc = "done", !.tick = 0]
             ELSE [@ EXCEPT !.wpc = "for", !.tick = 0]]
  /\ UNCHANGED << file, _stop_refresh, _refresh_thread, nthreads, rf, mpc,
                  lastOp, prevOp, lastRet, lastIoErr, sched, prevSched, before, lg >>

\* lines 353-356 without the flag test of lines 354-355
WorkerForNoTest(i) ==
  /\ w[i].wpc = "for"
  /\ w' = [w EXCEPT ![i] =
             IF w[i].tick < TicksPerInterval
             THEN [@ EXCEPT !.wpc = "sleep"]
             ELSE [@ EXCEPT !.wpc = "after", !.tick = 0]]
  /\ UNCHANGED << file, _stop_refresh, _refresh_thread, nthreads, rf, mpc,
                  lastOp, prevOp, lastRet, lastIoErr, sched, prevSched,
                  before, lg >>

\* lines 353-355: the next iteration of the for loop and its flag test
WorkerFor(i) ==
  /\ w[i].wpc = "for"
  /\ w' = [w EXCEPT ![i] =
             IF w[i].tick < TicksPerInterval
             THEN IF _stop_refresh
                  THEN [@ EXCEPT !.wpc = "after", !.tick = 0]
                  ELSE [@ EXCEPT !.wpc = "sleep"]
             ELSE [@ EXCEPT !.wpc = "after", !.tick = 0]]
  /\ UNCHANGED << file, _stop_refresh, _refresh_thread, nthreads, rf, mpc,
                  lastOp, prevOp, lastRet, lastIoErr, sched, prevSched, before, lg >>

\* line 356: time.sleep(60)
WorkerSleep(i) ==
  /\ w[i].wpc = "sleep"
  /\ w' = [w EXCEPT ![i] = [@ EXCEPT !.wpc = "for", !.tick = @ + 1]]
  /\ UNCHANGED << file, _stop_refresh, _refresh_thread, nthreads, rf, mpc,
                  lastOp, prevOp, lastRet, lastIoErr, sched, prevSched, before, lg >>

\* lines 358-360: the scheduled refresh, unless the flag is set
WorkerAfter(i) ==
  /\ w[i].wpc = "after"
  /\ IF _stop_refresh
     THEN /\ w' = [w EXCEPT ![i].wpc = "while"]
          /\ UNCHANGED rf
     ELSE /\ w' = [w EXCEPT ![i].wpc = "refreshing"]
          /\ BeginRefresh(i)
  /\ UNCHANGED << file, _stop_refresh, _refresh_thread, nthreads, mpc,
                  lastOp, prevOp, lastRet, lastIoErr, sched, prevSched, before, lg >>

WorkerStep(i) ==
  \/ WorkerInitialRefresh(i)
  \/ WorkerRefreshReturn(i)
  \/ WorkerWhile(i)
  \/ WorkerFor(i)
  \/ WorkerSleep(i)
  \/ WorkerAfter(i)

\* ---------------------------------------------------------- specifications
\* store contents the program may find at start-up
InitFiles ==
  { NoFile, FileOf(<<"[", "]">>), FileOf(<<"[", "c1", "]">>), FileOf(<<"[", "c1">>) }

RECURSIVE SeqsUpTo(_)
SeqsUpTo(n) ==
  IF n = 0 THEN { <<>> }
  ELSE LET shorter == SeqsUpTo(n - 1)
       IN shorter \cup { Append(s, tok) : s \in shorter, tok \in Tokens }

\* every store content of at most MaxFileLen tokens, or no file
AnyFiles == { NoFile } \cup { FileOf(s) : s \in SeqsUpTo(MaxFileLen) }

InitRest ==
  /\ _stop_refresh = FALSE
  /\ _refresh_thread = 0
  /\ nthreads = 0
  /\ w = [i \in Workers |-> NewWorker]
  /\ rf = [t \in Threads |-> IdleRec]
  /\ mpc = "idle"
  /\ lastOp = "none"
  /\ prevOp = "none"
  /\ lastRet = "none"
  /\ lastIoErr = FALSE
  /\ sched = "none"
  /\ prevSched = "none"
  /\ before = NoFile
  /\ lg = NoLogin

\* the scheduler never reads the store: it starts with no file or a valid one
Init == file \in { NoFile, FileOf(<<"[", "c1", "]">>) } /\ InitRest

\* the scheduler: start and stop from the caller's thread, and the workers
Next ==
  \/ Start
  \/ StopSet
  \/ StopJoin
  \/ \E i \in Workers : WorkerStep(i)
  \/ \E i \in Workers : RefreshStep(i)

Spec == Init /\ [][Next]_vars

\* Threads are scheduled fairly, and every step of a refresh ends: each
\* browser wait carries a timeout (lines 129-153, 188-198).
FairSpec ==
  /\ Spec
  /\ \A i \in Workers : WF_vars(WorkerStep(i)) /\ WF_vars(RefreshStep(i))

\* the caller's one-shot operations, no scheduler
NextSeq ==
  \/ CallRefresh
  \/ CallEnsure
  \/ CallIsValid
  \/ MainReturn
  \/ RefreshStep(0)

InitSeq == file \in InitFiles /\ InitRest

SpecSeq == InitSeq /\ [][NextSeq]_vars

\* the validity check applied to every store content
InitStore == file \in AnyFiles /\ InitRest

NextStore == CallIsValid

SpecStore == InitStore /\ [][NextStore]_vars

\* a caller that reads the store while the scheduler's worker runs
NextReader ==
  \/ Start
  \/ CallIsValid
  \/ \E i \in Workers : WorkerStep(i)
  \/ \E i \in Workers : RefreshStep(i)

SpecReader == Init /\ [][NextReader]_vars

\* a caller that refreshes by hand beside the initial refresh of the
\* scheduler's worker
NextWriters ==
  \/ Start
  \/ CallRefresh
  \/ \E i \in Workers : WorkerInitialRefresh(i) \/ WorkerRefreshReturn(i)
  \/ \E t \in Threads : RefreshStep(t)

SpecWriters == Init /\ [][NextWriters]_vars

\* login_to_gmail on its own, over every step failure and every page
InitLogin == file = NoFile /\ InitRest

NextLogin == CallLogin

SpecLogin == InitLogin /\ [][NextLogin]_vars

\* ------------------------------------------------------------------ claims
\* the store as the specification defines a valid one: the file exists,
\* parses, and the parsed value is a non-empty sequence
StoreValid(f) ==
  /\ f.exists
  /\ json_load(f.data).ok
  /\ json_load(f.data).kind = "list"
  /\ json_load(f.data).len > 0

\* C1: when refresh() returns false the store file is exactly what it was
\* before the call, and when it returns true the store file is valid.
C1_RefreshAtomic ==
  rf[0].pc = "ret" =>
    /\ rf[0].res = "false" => file = before
    /\ rf[0].res = "true" => StoreValid(file)

\* C2: with the identity or the secret missing, refresh() returns false and
\* launches no browser at any point of the call.
C2_NoLaunchWithoutCredentials ==
  rf[0].credsMissing =>
    /\ ~rf[0].launched
    /\ rf[0].pc = "ret" => rf[0].res = "false"

\* C3: when the page after the secret is submitted shows a verification /
\* challenge URL, login() does not succeed and refresh() returns false
\* without writing the store, whatever success signals the page also shows.
C3_ChallengeNeverSuccess ==
  rf[0].chal =>
    /\ rf[0].login = "false"
    /\ file = before
    /\ rf[0].pc = "ret" => rf[0].res = "false"

\* C4: at most one renewal worker is alive at any time, and a start() that
\* finds a live worker creates no thread and leaves exactly one alive.
C4_AtMostOneWorker ==
  /\ [](Cardinality(LiveWorkers) <= 1)
  /\ [][(Start /\ LiveWorkers # {}) =>
          /\ nthreads' = nthreads
          /\ w' = w
          /\ Cardinality(LiveWorkers) = 1]_vars

C4_Witness ==
  /\ sched = "noop"
  /\ prevSched = "spawned"
  /\ nthreads = 1
  /\ Cardinality(LiveWorkers) = 1

\* C5: a start() called while the scheduler is not running (never started,
\* or stopped by an earlier stop()) leaves a live worker and a clear
\* cancellation flag, even if the previous worker had not yet exited.
C5_StartAfterStopSpawns ==
  [][(Start /\ sched \in {"none", "stopped"}) =>
       /\ \E i \in Workers : w'[i].wpc \notin {"unborn", "done", "crashed"}
       /\ ~_stop_refresh']_vars

\* C6: once a stop() that followed a start() has returned, and until a
\* later start(), no worker begins a refresh.
C6_NoRefreshAfterStop ==
  [][(sched = "stopped" /\ _refresh_thread # 0) =>
       \A i \in Workers : ~(rf[i].pc = "idle" /\ rf'[i].pc = "loop")]_vars

\* C7: stop() raises no error, creates no worker and triggers no refresh,
\* also with no worker ever created or after an earlier stop(); and a
\* start() that finds no live worker afterwards spawns one with the
\* cancellation flag clear.
C7_StopSafe ==
  /\ [](lastRet # "raise")
  /\ [][(StopSet \/ StopJoin) =>
          /\ nthreads' = nthreads
          /\ _refresh_thread' = _refresh_thread
          /\ w' = w
          /\ rf' = rf]_vars
  /\ [][(Start /\ LiveWorkers = {}) =>
          /\ nthreads' = nthreads + 1
          /\ w'[_refresh_thread'].wpc = "started"
          /\ ~_stop_refresh']_vars

C7_Witness ==
  /\ prevSched = "stopped"
  /\ sched = "spawned"
  /\ nthreads = 1
  /\ w[1].wpc = "refreshing"
  /\ ~_stop_refresh

\* C8: no outcome of refresh() ends the worker: no exception reaches the
\* loop, and while cancellation is not requested the worker goes from a
\* returned refresh through TicksPerInterval sleeps to the next refresh;
\* under fair scheduling a refresh in progress is followed, unless
\* cancellation is requested, by its return and the full sleep, at the
\* point where the next refresh is due.
C8_WorkerSurvives ==
  /\ [](\A i \in Workers : w[i].wpc # "crashed" /\ rf[i].res # "raise")
  /\ [][\A i \in Workers :
          (w'[i] # w[i] /\ w[i].wpc # "unborn" /\ ~_stop_refresh) =>
            /\ w'[i].wpc \notin {"done", "crashed"}
            /\ w[i].wpc = "refreshing" => w'[i].wpc = "while"
            /\ w[i].wpc = "while" => w'[i].wpc = "for" /\ w'[i].tick = 0
            /\ (w[i].wpc = "for" /\ w[i].tick < TicksPerInterval) =>
                 w'[i].wpc = "sleep"
            /\ w[i].wpc = "sleep" =>
                 w'[i].wpc = "for" /\ w'[i].tick = w[i].tick + 1
            /\ (w[i].wpc = "for" /\ w[i].tick = TicksPerInterval) =>
                 w'[i].wpc = "after"
            /\ w[i].wpc = "after" =>
                 w'[i].wpc = "refreshing" /\ rf'[i].pc = "loop"]_vars
  /\ \A i \in Workers :
       (w[i].wpc = "refreshing" /\ ~_stop_refresh) ~>
         (_stop_refresh \/ (w[i].wpc = "after" /\ rf[i].pc = "idle"))

C8_Witness ==
  \E i \in Workers :
    /\ w[i].lastRes = "false"
    /\ w[i].wpc = "refreshing"
    /\ rf[i].pc = "loop"
    /\ ~_stop_refresh

C10_IsValidIff ==
  lastOp = "isValid" =>
    (lastRet = "true" <=> (~lastIoErr /\ StoreValid(file)))

\* a domain matches a target suffix when it ends with one of TargetDomains
EndsWith(s, suf) ==
  Len(suf) <= Len(s) /\ SubSeq(s, Len(s) - Len(suf) + 1, Len(s)) = suf

TargetSuffix(d) == \E t \in TargetDomains : EndsWith(d, t)

\* C11: every cookie record in the store has a domain that matches one of
\* the configured target domain suffixes.
C11_OnlyTargetDomains ==
  \A k \in 1..Len(file.data) :
    file.data[k] \in CookieTokens => TargetSuffix(CookieDomain(file.data[k]))

\* C13: login() always gives back a terminal outcome: whichever step
\* raises, the waits, the fills, the clicks or the reading of the URL and
\* the page content during disambiguation, the call returns failed and the
\* exception does not leave it.
C13_LoginTerminal ==
  /\ lg.called => lg.out \in {"true", "false"}
  /\ (lg.called /\ (lg.stepExc \/ (~lg.waitOk /\ lg.contentExc)))
       => lg.out = "false"

C13_Witness ==
  lg.called /\ ~lg.stepExc /\ ~lg.waitOk /\ lg.contentExc /\ lg.out = "false"

\* the success-signal wait of the last login() failed and the URL and the
\* page content were read
TimedOut == lg.called /\ ~lg.stepExc /\ ~lg.waitOk /\ ~lg.contentExc

BrowserCloseTried(t) ==
  \E k \in 1..Len(rf[t].closes) : rf[t].closes[k] = "browser"

\* C14: a refresh() that launched a browser has released it when it
\* returns, on every exit path, a failure part-way through the acquire
\* included.
C14_BrowserReleased ==
  \A t \in Threads :
    (rf[t].pc = "ret" /\ rf[t].launched) => BrowserCloseTried(t)

\* C15: release() attempts the page close and then the browser close: after
\* a release whose page close failed, the browser close was still attempted.
C15_BothClosesTried ==
  \A t \in Threads :
    (rf[t].pc = "ret" /\ rf[t].closes # <<>>)
      => rf[t].closes = <<"page", "browser">>

\* worker i is between two refreshes and cancellation is requested
Cancelled(i) ==
  _stop_refresh /\ w[i].wpc \in {"while", "for", "sleep", "after"}

\* C17: the sleeping worker tests the flag before every tick: once the flag
\* is set it starts no further tick and no refresh, the flag stays set, and
\* (under fair scheduling) the worker exits; with the flag clear the for
\* loop is left only after TicksPerInterval ticks, each sleep counting one,
\* so two scheduled refreshes are a full interval apart.
C17_SleepCancellable ==
  /\ [][\A i \in Workers :
          Cancelled(i) =>
            /\ w'[i].wpc \in {"while", "for", "sleep", "after", "done"}
            /\ w[i].wpc = "for" => w'[i].wpc # "sleep"
            /\ rf'[i] = rf[i]
            /\ _stop_refresh']_vars
  /\ [][\A i \in Workers :
          /\ (w[i].wpc = "while" /\ w'[i].wpc = "for") => w'[i].tick = 0
          /\ (w[i].wpc = "for" /\ w'[i].wpc = "sleep") =>
               w'[i].tick = w[i].tick
          /\ (w[i].wpc = "sleep" /\ w'[i] # w[i]) =>
               w'[i].wpc = "for" /\ w'[i].tick = w[i].tick + 1
          /\ (w[i].wpc = "for" /\ w'[i].wpc = "after" /\ ~_stop_refresh) =>
               w[i].tick = TicksPerInterval
          /\ (w[i].wpc = "after" /\ w'[i].wpc = "refreshing") =>
               ~_stop_refresh]_vars
  /\ \A i \in Workers : Cancelled(i) ~> (w[i].wpc = "done")

C17_Witness ==
  \E i \in Workers :
    /\ _stop_refresh
    /\ w[i].wpc = "for"
    /\ w[i].tick \in 1..(TicksPerInterval - 1)
    /\ sched = "stopped"

\* C18: a stop() issued while the worker's refresh is in flight leaves that
\* refresh alone: stop() changes nothing of the worker, the worker leaves
\* the refresh only through its return, and then sees the flag and exits
\* without another refresh; under fair scheduling the refresh does return
\* and the worker does exit.
C18_StopDoesNotInterrupt ==
  /\ [][\A i \in Workers :
          (w[i].wpc = "refreshing" /\ mpc # mpc') =>
            (w'[i] = w[i] /\ rf'[i] = rf[i])]_vars
  /\ [][\A i \in Workers :
          (_stop_refresh /\ w[i].wpc = "refreshing" /\ w'[i] # w[i]) =>
            (rf[i].pc = "ret" /\ w'[i].wpc = "while" /\ _stop_refresh')]_vars
  /\ [][\A i \in Workers :
          (_stop_refresh /\ w[i].wpc = "while" /\ w'[i] # w[i]) =>
            w'[i].wpc = "done"]_vars
  /\ \A i \in Workers :
       (_stop_refresh /\ w[i].wpc = "refreshing") ~> (w[i].wpc = "done")

\* stop() has returned and the worker's refresh is still writing the store
C18_Witness ==
  \E i \in Workers :
    /\ sched = "stopped"
    /\ _stop_refresh
    /\ w[i].wpc = "refreshing"
    /\ rf[i].pc = "dump"
    /\ rf[i].pos > 0

\* C20: the cancellation flag is cleared only when no worker is alive, so a
\* cancellation cannot be undone for the worker it was meant for, and
\* (under fair scheduling) a live worker whose flag is set exits.
C20_FlagNotClearedWhileAlive ==
  /\ [][(_stop_refresh /\ ~_stop_refresh') => LiveWorkers = {}]_vars
  /\ \A i \in Workers : (_stop_refresh /\ Alive(i)) ~> ~Alive(i)

\* a start() after stop() found the worker alive and left the flag set
C20_Witness ==
  /\ prevSched = "stopped"
  /\ sched = "noop"
  /\ _stop_refresh
  /\ LiveWorkers # {}

\* the store is absent or holds the whole output of one write
StoreComplete(f) ==
  \/ ~f.exists
  \/ \E jar \in BrowserJars :
       FilterCookies(jar) # <<>> /\ f.data = json_dump(FilterCookies(jar))

\* C12: a reader that runs beside a write sees the complete content from
\* before the write or the complete content after it, never an empty or
\* half-written file.
C12_ReaderSeesComplete ==
  [][CallIsValid => StoreComplete(file)]_vars

\* the refresh of thread t has written its cookies and closed the file
Wrote(t) == rf[t].pc \in {"release", "ret"} /\ rf[t].res = "true"

\* C19: when a manual refresh and the worker's refresh have both written
\* the store, it holds the complete cookie set of one of them, not a
\* mixture and not a truncated file.
C19_LastWriterWins ==
  \A t \in Threads, u \in Threads :
    (t # u /\ Wrote(t) /\ Wrote(u)) => StoreComplete(file)

====
